---------------------------- MODULE Spec2Model ----------------------------
(***************************************************************************)
(* A model of CherenkovDeconvolution.py: the numerical utilities of        *)
(* cherenkovdeconvolution/util.py and the DSEA deconvolution loop of       *)
(* cherenkovdeconvolution/dsea.py.                                         *)
(*                                                                         *)
(* Numbers.  numpy floats are modelled as exact extended rationals: a      *)
(* pair <<n, d>> in lowest terms with d > 0 is the rational n/d, and       *)
(* d = 0 marks the non-finite floats: <<1,0>> is +inf, <<-1,0>> is -inf    *)
(* and <<0,0>> is NaN.  Rounding error, overflow and signed zeros are not  *)
(* modelled.  Arrays are sequences, matrices are sequences of rows.        *)
(***************************************************************************)
EXTENDS Integers, Sequences, FiniteSets, TLC

(***************************************************************************)
(* Bounds of the model.                                                    *)
(***************************************************************************)
MaxLen == 3      \* longest array handed to a utility function
MaxVal == 2      \* largest integer entry of such an array
MaxK == 2        \* largest maximum iteration number K
MaxTrain == 2    \* largest number of training instances
MaxData == 2     \* largest number of data instances

(***************************************************************************)
(* Extended rational arithmetic (IEEE semantics without rounding).         *)
(***************************************************************************)
Abs(i) == IF i < 0 THEN -i ELSE i

Sgn(i) == IF i < 0 THEN -1 ELSE IF i > 0 THEN 1 ELSE 0

RECURSIVE GCD(_, _)
GCD(a, b) == IF b = 0 THEN a ELSE GCD(b, a % b)

Norm(n, d) ==
    IF d = 0 THEN <<Sgn(n), 0>>
    ELSE LET g == GCD(Abs(n), Abs(d))
             s == Sgn(d)
         IN  <<(s * n) \div g, (s * d) \div g>>

R(i) == <<i, 1>>

Zero == <<0, 1>>

One == <<1, 1>>

NaN == <<0, 0>>

PosInf == <<1, 0>>

NegInf == <<-1, 0>>

IsFinite(x) == x[2] # 0

IsNaN(x) == x = NaN

Neg(x) == <<-x[1], x[2]>>

Add(x, y) ==
    IF IsFinite(x) /\ IsFinite(y) THEN Norm(x[1] * y[2] + y[1] * x[2], x[2] * y[2])
    ELSE IF IsFinite(y) THEN x
    ELSE IF IsFinite(x) THEN y
    ELSE IF x = y THEN x ELSE NaN

Sub(x, y) == Add(x, Neg(y))

Mul(x, y) ==
    IF IsFinite(x) /\ IsFinite(y) THEN Norm(x[1] * y[1], x[2] * y[2])
    ELSE <<Sgn(x[1]) * Sgn(y[1]), 0>>

Div(x, y) ==
    IF IsFinite(x) /\ IsFinite(y) THEN Norm(x[1] * y[2], x[2] * y[1])
    ELSE IF IsFinite(y) THEN <<x[1] * (IF y[1] < 0 THEN -1 ELSE 1), 0>>
    ELSE IF IsFinite(x) /\ ~IsNaN(y) THEN Zero
    ELSE NaN

\* x < y as floats compare: every comparison with NaN is false
Less(x, y) ==
    IF IsNaN(x) \/ IsNaN(y) THEN FALSE
    ELSE IF IsFinite(x) /\ IsFinite(y) THEN x[1] * y[2] < y[1] * x[2]
    ELSE IF x = y THEN FALSE
    ELSE x = NegInf \/ y = PosInf

Leq(x, y) == ~IsNaN(x) /\ ~IsNaN(y) /\ ~Less(y, x)

\* Python's builtin max(a, b): b if b > a, else a
PyMax(a, b) == IF Less(a, b) THEN b ELSE a

(***************************************************************************)
(* Arrays.                                                                 *)
(***************************************************************************)
RECURSIVE SumTo(_, _)
SumTo(s, n) == IF n = 0 THEN Zero ELSE Add(SumTo(s, n - 1), s[n])

\* np.sum
Sum(s) == SumTo(s, Len(s))

VAdd(a, b) == [i \in 1..Len(a) |-> Add(a[i], b[i])]

VSub(a, b) == [i \in 1..Len(a) |-> Sub(a[i], b[i])]

VScale(c, a) == [i \in 1..Len(a) |-> Mul(c, a[i])]

VDiv(a, b) == [i \in 1..Len(a) |-> Div(a[i], b[i])]

Dot(a, b) == Sum([i \in 1..Len(a) |-> Mul(a[i], b[i])])

\* the set of values of a sequence
Range(s) == {s[i] : i \in 1..Len(s)}

\* all sequences over S with a length in lo..hi
SeqsOf(S, lo, hi) == UNION {[1..n -> S] : n \in lo..hi}

\* np.argsort of distinct integers, 1-based: position of the i-th smallest
ArgSort(s) ==
    [i \in 1..Len(s) |->
        CHOOSE j \in 1..Len(s) : Cardinality({k \in 1..Len(s) : s[k] < s[j]}) = i - 1]

\* np.unique: the sorted distinct values
RECURSIVE SortedSeq(_)
SortedSeq(S) ==
    IF S = {} THEN <<>>
    ELSE LET mn == CHOOSE x \in S : \A y \in S : x <= y
         IN  <<mn>> \o SortedSeq(S \ {mn})

Unique(s) == SortedSeq(Range(s))

(***************************************************************************)
(* Outcomes of a call: a returned value, a returned None, or a raised      *)
(* exception.                                                              *)
(***************************************************************************)
Returned(v) == [kind |-> "value", value |-> v, error |-> ""]

ReturnedNone == [kind |-> "none", value |-> <<>>, error |-> ""]

Raised(e) == [kind |-> "raise", value |-> <<>>, error |-> e]

(***************************************************************************)
(* util.py                                                                 *)
(***************************************************************************)
\* normalizepdf without the replacement of non-finite entries
normalizepdf_keeping_nonfinite(arr) ==
    LET arrsum == Sum(arr)
    IN  IF arrsum # Zero
        THEN [i \in 1..Len(arr) |-> Div(arr[i], arrsum)]
        ELSE [i \in 1..Len(arr) |-> Div(One, R(Len(arr)))]

\* normalizepdf, lines 99-109: non-finite entries become 0, then the array is
\* divided by its sum, or replaced by the uniform distribution if the sum is 0
normalizepdf(arr) ==
    LET a == [i \in 1..Len(arr) |-> IF IsFinite(arr[i]) THEN arr[i] ELSE Zero]
        arrsum == Sum(a)
    IN  IF arrsum # Zero
        THEN [i \in 1..Len(a) |-> Div(a[i], arrsum)]
        ELSE [i \in 1..Len(a) |-> Div(One, R(Len(a)))]

\* normalizepdf with its copy argument, lines 94-97: working in place is
\* refused for an array whose dtype is not float
normalizepdf_call(arr, copy, isFloat) ==
    IF ~copy /\ ~isFloat
    THEN Raised("ValueError")
    ELSE Returned(normalizepdf(arr))

\* np.bincount(sel, minlength = J) of non-negative integers
bincount(sel, J) ==
    LET top == IF Len(sel) = 0 THEN 0
               ELSE 1 + (CHOOSE v \in Range(sel) : \A u \in Range(sel) : u <= v)
        L == IF top > J THEN top ELSE J
    IN  [v \in 1..L |-> R(Cardinality({k \in 1..Len(sel) : sel[k] = v - 1}))]

\* x[y == i]
Select(x, y, i) ==
    LET RECURSIVE Sel(_)
        Sel(n) == IF n = 0 THEN <<>>
                  ELSE IF y[n] = i THEN Append(Sel(n - 1), x[n]) ELSE Sel(n - 1)
    IN  Sel(Len(x))

\* a column of fit_R that counts all instances, whatever their target index
fit_R_column_of_all(x, y, i, J, normalize) ==
    IF normalize THEN normalizepdf(bincount(x, J)) ELSE bincount(x, J)

\* column i (0-based) of fit_R, lines 72-73, before it is stored in R
fit_R_column(x, y, i, J, normalize) ==
    LET bincounts == bincount(Select(x, y, i), J)
    IN  IF normalize THEN normalizepdf(bincounts) ELSE bincounts

\* fit_R, lines 68-74: storing a column longer than J in R[:, i] raises
fit_R(x, y, normalize) ==
    LET I == Cardinality(Range(y))
        J == Cardinality(Range(x))
        col(i) == fit_R_column(x, y, i, J, normalize)
    IN  IF \E i \in 0..(I - 1) : Len(col(i)) # J
        THEN Raised("ValueError")
        ELSE Returned([j \in 1..J |-> [i \in 1..I |-> col(i - 1)[j]]])

\* x ** j for the positions x = 0 .. n-1
Monomial(n, j) ==
    LET RECURSIVE Pow(_, _)
        Pow(b, e) == IF e = 0 THEN 1 ELSE b * Pow(b, e - 1)
    IN  [i \in 1..n |-> R(Pow(i - 1, j))]

\* the degree-j polynomial orthogonal, on the positions 0 .. n-1, to all
\* polynomials of lower degree (Gram-Schmidt)
RECURSIVE OrthoPoly(_, _)
OrthoPoly(n, j) ==
    LET mono == Monomial(n, j)
        RECURSIVE Reduce(_, _)
        Reduce(v, i) ==
            IF i < 0 THEN v
            ELSE LET q == OrthoPoly(n, i)
                 IN  Reduce(VSub(v, VScale(Div(Dot(mono, q), Dot(q, q)), q)), i - 1)
    IN  Reduce(mono, j - 1)

\* np.polyval(np.polyfit(x, arr, order), x): the least-squares polynomial of
\* the given order through arr, evaluated at the positions of arr
polyfit_polyval(arr, order) ==
    LET n == Len(arr)
        RECURSIVE Fit(_)
        Fit(j) ==
            IF j < 0 THEN [i \in 1..n |-> Zero]
            ELSE LET q == OrthoPoly(n, j)
                 IN  VAdd(Fit(j - 1), VScale(Div(Dot(arr, q), Dot(q, q)), q))
    IN  Fit(order)

\* smooth_polynomial, lines 129-133: the else branch builds a ValueError and
\* drops it, so the function falls off its end and returns None
smooth_polynomial(arr, order) ==
    IF order < Len(arr)
    THEN Returned(polyfit_polyval(arr, order))
    ELSE ReturnedNone

\* chi2s with normalize = True, lines 153-159
chi2s(a, b) ==
    LET an == normalizepdf(a)
        bn == normalizepdf(b)
        term(i) == IF Less(Zero, an[i]) \/ Less(Zero, bn[i])
                   THEN Div(Mul(Sub(an[i], bn[i]), Sub(an[i], bn[i])), Add(an[i], bn[i]))
                   ELSE Zero
    IN  Mul(R(2), Sum([i \in 1..Len(an) |-> term(i)]))

(***************************************************************************)
(* dsea.py: the helpers of deconvolve.                                     *)
(***************************************************************************)
\* util.histogram(y_train, ylevels), called at dsea.py line 106 and defined
\* nowhere in util.py: the normalized histogram of the training labels over
\* ylevels, as the specification describes it
histogram(y_train, ylevels) ==
    [j \in 1..Len(ylevels) |->
        Div(R(Cardinality({i \in 1..Len(y_train) : y_train[i] = ylevels[j]})),
            R(Len(y_train)))]

\* the weight of training instance i without the floor 1/n_train
dsea_weight_at_unfloored(y_train, w, ylevels, out0, i) ==
    LET pairs == IF Len(ylevels) < Len(w) THEN Len(ylevels) ELSE Len(w)
        hits == {j \in 1..pairs : ylevels[j] = y_train[i]}
    IN  IF hits = {} THEN out0[i]
        ELSE w[CHOOSE h \in hits : \A g \in hits : g <= h]

\* the weight the loop of _dsea_weights (lines 145-146) leaves at training
\* instance i: the last level of ylevels that equals the label decides, and an
\* instance whose label is no level keeps what out held
dsea_weight_at(y_train, w, ylevels, out0, i) ==
    LET pairs == IF Len(ylevels) < Len(w) THEN Len(ylevels) ELSE Len(w)
        hits == {j \in 1..pairs : ylevels[j] = y_train[i]}
    IN  IF hits = {} THEN out0[i]
        ELSE LET j == CHOOSE h \in hits : \A g \in hits : g <= h
             IN  PyMax(w[j], Div(One, R(Len(y_train))))

\* _dsea_weights, lines 139-147; outGiven is "out is not None"
_dsea_weights(y_train, w_bin, ylevels, outGiven, out) ==
    LET w == normalizepdf(w_bin)
        out0 == IF outGiven THEN out ELSE [i \in 1..Len(y_train) |-> Zero]
    IN  [i \in 1..Len(y_train) |-> dsea_weight_at(y_train, w, ylevels, out0, i)]

\* line 157: proba[:, argsort(classes_)] = proba[:, argsort(ylevels)];
\* the right-hand side is a copy, column i of which is stored at argsort(classes_)[i]
realign_columns(proba, classes_, ylevels) ==
    LET sc == ArgSort(classes_)
        sy == ArgSort(ylevels)
        src(c) == sy[CHOOSE i \in 1..Len(sc) : sc[i] = c]
    IN  [r \in 1..Len(proba) |-> [c \in 1..Len(classes_) |-> proba[r][src(c)]]]

\* _train_and_predict_proba, lines 153-158, given what predict_proba returned
_train_and_predict_proba(raw, classes_, ylevels) ==
    realign_columns(raw, classes_, ylevels)

\* _dsea_reconstruct, line 163: the column-wise sum of the confidence matrix
_dsea_reconstruct(proba) ==
    [j \in 1..Len(proba[1]) |-> Sum([r \in 1..Len(proba) |-> proba[r][j]])]

\* a step whose search direction is the reconstructed estimate itself
_dsea_step_without_difference(f, f_prev, alpha) ==
    IF alpha.callable
    THEN Raised("NameError")
    ELSE Returned([f |-> VAdd(f_prev, VScale(alpha.value, f)), alphak |-> alpha.value])

\* _dsea_step, lines 168-170.  alpha is [callable, value].  The call of a
\* callable alpha evaluates the name k, which is neither a parameter nor a
\* global of dsea.py, so it raises NameError before alpha is invoked
_dsea_step(f, f_prev, alpha) ==
    LET pk == VSub(f, f_prev)
    IN  IF alpha.callable
        THEN Raised("NameError")
        ELSE Returned([f |-> VAdd(f_prev, VScale(alpha.value, pk)),
                       alphak |-> alpha.value])

\* a convergence test that also stops at a distance equal to epsilon
converged_or_equal(d, epsilon) == Leq(d, epsilon)

\* line 126: convergence is assumed when the distance is below epsilon
converged(d, epsilon) == Less(d, epsilon)

\* bin weights that ignore fixweighting
bin_weights_unfixed(f, f_train, fixweighting) == f

\* the bin weights handed to _dsea_weights, lines 107 and 132
bin_weights(f, f_train, fixweighting) ==
    IF fixweighting THEN VDiv(f, f_train) ELSE f

(***************************************************************************)
(* State.                                                                  *)
(***************************************************************************)
VARIABLES
    fn,          \* the function a direct call exercised ("none" before it)
    args,        \* the arguments of that call
    res,         \* its outcome
    pc,          \* where deconvolve stands
    inp,         \* the arguments of deconvolve
    ylevels,     \* ylevels after defaulting (line 96)
    k,           \* loop variable of line 112 (0 before the first iteration)
    f,           \* current estimate
    f_prev,      \* previous estimate (line 113)
    f_train,     \* training distribution (line 106)
    w_train,     \* instance weights
    predicted,   \* what the last classifier.predict_proba returned
    proba,       \* [bound, value]: the local variable proba
    alphak,      \* step size of the current iteration
    chi2,        \* Chi Square distance of the current iteration
    out,         \* outcome of deconvolve
    trace,       \* the calls made so far, in order: <<what, k>>
    inspectLog,  \* arguments of every inspect call
    fitLog       \* the weights every classifier.fit received

callVars == <<fn, args, res>>

dseaVars == <<pc, inp, ylevels, k, f, f_prev, f_train, w_train, predicted, proba,
              alphak, chi2, out, trace, inspectLog, fitLog>>

vars == <<fn, args, res, pc, inp, ylevels, k, f, f_prev, f_train, w_train, predicted,
          proba, alphak, chi2, out, trace, inspectLog, fitLog>>

(***************************************************************************)
(* Inputs.                                                                 *)
(***************************************************************************)
Half == <<1, 2>>

\* target levels
Levels == {0, 1, 2}

\* entries of the arrays handed to the utilities
Finites == {R(v) : v \in (-1)..MaxVal}

ArrVals == Finites \cup {NaN, PosInf, NegInf}

\* sequences without a repeated element
InjSeqs(S, lo, hi) == {s \in SeqsOf(S, lo, hi) : Cardinality(Range(s)) = Len(s)}

\* the orderings of the elements of a sequence
Perms(s) == {t \in [1..Len(s) -> Range(s)] : Range(t) = Range(s)}

\* an optional argument
None == [given |-> FALSE, value |-> <<>>]

Some(v) == [given |-> TRUE, value |-> v]

\* the rows a classifier may return: confidences in {0, 1/2, 1} that sum to 1
ConfRows(m) == {r \in [1..m -> {Zero, Half, One}] : Sum(r) = One}

Constant(v) == [callable |-> FALSE, value |-> v]

Callable == [callable |-> TRUE, value |-> Zero]

(***************************************************************************)
(* Direct calls of the utilities and of the helpers of deconvolve.         *)
(***************************************************************************)
Call_normalizepdf ==
    /\ pc = "idle"
    /\ fn = "none"
    /\ \E arr \in SeqsOf(ArrVals, 1, MaxLen), copy \in BOOLEAN, isFloat \in BOOLEAN :
          /\ isFloat \/ \A i \in 1..Len(arr) : IsFinite(arr[i])
          /\ fn' = "normalizepdf"
          /\ args' = [arr |-> arr, copy |-> copy, isFloat |-> isFloat]
          /\ res' = normalizepdf_call(arr, copy, isFloat)
    /\ UNCHANGED dseaVars

Call_fit_R ==
    /\ pc = "idle"
    /\ fn = "none"
    /\ \E n \in 0..MaxTrain, normalize \in BOOLEAN :
          \E x \in [1..n -> 0..MaxVal], y \in [1..n -> 0..MaxVal] :
             /\ fn' = "fit_R"
             /\ args' = [x |-> x, y |-> y, normalize |-> normalize]
             /\ res' = fit_R(x, y, normalize)
    /\ UNCHANGED dseaVars

Call_smooth_polynomial ==
    /\ pc = "idle"
    /\ fn = "none"
    /\ \E arr \in SeqsOf(Finites, 1, MaxLen), order \in 0..MaxLen :
          /\ fn' = "smooth_polynomial"
          /\ args' = [arr |-> arr, order |-> order]
          /\ res' = smooth_polynomial(arr, order)
    /\ UNCHANGED dseaVars

Call_dsea_weights ==
    /\ pc = "idle"
    /\ fn = "none"
    /\ \E y_train \in SeqsOf(Levels, 1, MaxTrain), yl \in InjSeqs(Levels, 1, 2) :
          \E w_bin \in [1..Len(yl) -> ArrVals],
             o \in {None} \cup {Some(v) : v \in [1..Len(y_train) -> {Zero, One}]} :
             /\ fn' = "_dsea_weights"
             /\ args' = [y_train |-> y_train, w_bin |-> w_bin, ylevels |-> yl, out |-> o]
             /\ res' = Returned(_dsea_weights(y_train, w_bin, yl, o.given, o.value))
    /\ UNCHANGED dseaVars

Call_train_and_predict_proba ==
    /\ pc = "idle"
    /\ fn = "none"
    /\ \E yl \in InjSeqs(Levels, 1, 3), n \in 1..MaxData :
          \E classes_ \in Perms(yl), raw \in [1..n -> [1..Len(yl) -> {Zero, One}]] :
             /\ fn' = "_train_and_predict_proba"
             /\ args' = [ylevels |-> yl, classes_ |-> classes_, raw |-> raw]
             /\ res' = Returned(_train_and_predict_proba(raw, classes_, yl))
    /\ UNCHANGED dseaVars

(***************************************************************************)
(* deconvolve, dsea.py lines 95-135.                                       *)
(***************************************************************************)
\* the training labels, K, the number of data instances and the class order of
\* the classifier, together with the other arguments opt
CallsWith(opt) ==
    {[y_train |-> y, K |-> K, n_data |-> n, classes_ |-> c,
      ylevels |-> o.ylevels, f_0 |-> o.f_0, fixweighting |-> o.fixweighting,
      alpha |-> o.alpha, epsilon |-> o.epsilon, inspect |-> o.inspect,
      return_contributions |-> o.return_contributions] :
        y \in SeqsOf({0, 1}, 1, MaxTrain), K \in 0..MaxK, n \in {1, 2},
        c \in InjSeqs({0, 1}, 1, 2), o \in opt}

\* calls that leave ylevels, f_0 and fixweighting at their defaults (lines 26-28)
ControlOptions ==
    [ylevels : {None}, f_0 : {None}, fixweighting : {TRUE},
     alpha : {Constant(One), Constant(Half), Callable},
     epsilon : {Zero, One},
     inspect : BOOLEAN,
     return_contributions : BOOLEAN]

\* calls that leave alpha, epsilon, inspect and return_contributions at their
\* defaults (lines 29, 31-33)
WeightingOptions ==
    [ylevels : {None} \cup {Some(s) : s \in InjSeqs({0, 1}, 1, 2)},
     f_0 : {None} \cup {Some(v) : v \in SeqsOf({Zero, One}, 1, 2)},
     fixweighting : BOOLEAN,
     alpha : {Constant(One)},
     epsilon : {Zero},
     inspect : {FALSE},
     return_contributions : {FALSE}]

\* the arguments deconvolve is called with: f_0 has one entry per level, and
\* the classifier's classes_ is an ordering of the levels
Inputs ==
    {i \in CallsWith(ControlOptions \cup WeightingOptions) :
        LET yl == IF i.ylevels.given THEN i.ylevels.value ELSE Unique(i.y_train)
        IN  /\ i.f_0.given => Len(i.f_0.value) = Len(yl)
            /\ i.classes_ \in Perms(yl)}

Unbound == [bound |-> FALSE, value |-> <<>>]

\* classifier.predict_proba(X_data) of the classifier handed to deconvolve: it
\* gives every data instance the same row of confidences, in the order of classes_
predict_proba(row, n_data) == [r \in 1..n_data |-> row]

\* lines 95-109: defaults, initial estimate and weights, inspect(0, nan, nan, f)
Deconvolve_Start ==
    /\ pc = "call"
    /\ LET yl == IF inp.ylevels.given THEN inp.ylevels.value ELSE Unique(inp.y_train)
           m == Len(yl)
           f0 == IF inp.f_0.given THEN inp.f_0.value ELSE [j \in 1..m |-> Div(One, R(m))]
           ft == [j \in 1..m |-> Div(histogram(inp.y_train, yl)[j], R(m))]
       IN  /\ ylevels' = yl
           /\ f' = f0
           /\ f_train' = ft
           /\ w_train' = _dsea_weights(inp.y_train, bin_weights(f0, ft, inp.fixweighting),
                                       yl, FALSE, <<>>)
           /\ IF inp.inspect
              THEN /\ inspectLog' = Append(inspectLog,
                                           [k |-> 0, alphak |-> NaN, chi2s |-> NaN, f |-> f0])
                   /\ trace' = Append(trace, <<"inspect", 0>>)
              ELSE UNCHANGED <<inspectLog, trace>>
    /\ pc' = "loop"
    /\ UNCHANGED <<fn, args, res, inp, k, f_prev, predicted, proba, alphak, chi2, out,
                   fitLog>>

\* lines 112-116: the next iteration begins; the classifier is fitted with the
\* current weights and predicts the confidence matrix, whose columns are realigned
Deconvolve_TrainPredict ==
    /\ pc = "loop"
    /\ k < inp.K
    /\ k' = k + 1
    /\ f_prev' = f
    /\ fitLog' = Append(fitLog, w_train)
    /\ \E row \in ConfRows(Len(ylevels)) :
          /\ predicted' = predict_proba(row, inp.n_data)
          /\ proba' = [bound |-> TRUE,
                       value |-> _train_and_predict_proba(predict_proba(row, inp.n_data),
                                                          inp.classes_, ylevels)]
    /\ trace' = trace \o <<<<"fit", k + 1>>, <<"predict_proba", k + 1>>>>
    /\ pc' = "step"
    /\ UNCHANGED <<fn, args, res, inp, ylevels, f, f_train, w_train, alphak, chi2, out,
                   inspectLog>>

\* line 117: reconstruct and step
Deconvolve_Step ==
    /\ pc = "step"
    /\ LET r == _dsea_step(_dsea_reconstruct(proba.value), f_prev, inp.alpha)
       IN  IF r.kind = "raise"
           THEN /\ pc' = "raised"
                /\ out' = r
                /\ UNCHANGED <<f, alphak, trace>>
           ELSE /\ pc' = "monitor"
                /\ f' = r.value.f
                /\ alphak' = r.value.alphak
                /\ trace' = Append(trace, <<"step", k>>)
                /\ UNCHANGED out
    /\ UNCHANGED <<fn, args, res, inp, ylevels, k, f_prev, f_train, w_train, predicted,
                   proba, chi2, inspectLog, fitLog>>

\* lines 121-133: the distance between the iterations, inspect, the convergence
\* test, and the in-place reweighting if the loop goes on and k < K
Deconvolve_Monitor ==
    /\ pc = "monitor"
    /\ LET d == chi2s(f_prev, f)
           seen == IF inp.inspect THEN <<<<"inspect", k>>>> ELSE <<>>
       IN  /\ chi2' = d
           /\ inspectLog' = IF inp.inspect
                            THEN Append(inspectLog,
                                        [k |-> k, alphak |-> alphak, chi2s |-> d, f |-> f])
                            ELSE inspectLog
           /\ IF converged(d, inp.epsilon)
              THEN /\ pc' = "return"
                   /\ trace' = trace \o seen \o <<<<"break", k>>>>
                   /\ UNCHANGED w_train
              ELSE /\ pc' = "loop"
                   /\ IF k < inp.K
                      THEN /\ w_train' = _dsea_weights(inp.y_train,
                                             bin_weights(f, f_train, inp.fixweighting),
                                             ylevels, TRUE, w_train)
                           /\ trace' = trace \o seen \o <<<<"test", k>>, <<"weights", k>>>>
                      ELSE /\ trace' = trace \o seen \o <<<<"test", k>>>>
                           /\ UNCHANGED w_train
    /\ UNCHANGED <<fn, args, res, inp, ylevels, k, f, f_prev, f_train, predicted, proba,
                   alphak, out, fitLog>>

\* line 135: reading proba when no iteration ever bound it raises
\* UnboundLocalError
Deconvolve_Return ==
    /\ pc = "return" \/ (pc = "loop" /\ k >= inp.K)
    /\ IF inp.return_contributions
       THEN IF proba.bound
            THEN /\ pc' = "done"
                 /\ out' = Returned([f |-> f, proba |-> proba])
            ELSE /\ pc' = "raised"
                 /\ out' = Raised("UnboundLocalError")
       ELSE /\ pc' = "done"
            /\ out' = Returned([f |-> f, proba |-> Unbound])
    /\ UNCHANGED <<fn, args, res, inp, ylevels, k, f, f_prev, f_train, w_train, predicted,
                   proba, alphak, chi2, trace, inspectLog, fitLog>>

(***************************************************************************)
(* Specifications.                                                         *)
(***************************************************************************)
NoCall ==
    /\ fn = "none"
    /\ args = <<>>
    /\ res = ReturnedNone

Locals ==
    /\ ylevels = <<>>
    /\ k = 0
    /\ f = <<>>
    /\ f_prev = <<>>
    /\ f_train = <<>>
    /\ w_train = <<>>
    /\ predicted = <<>>
    /\ proba = Unbound
    /\ alphak = NaN
    /\ chi2 = NaN
    /\ out = ReturnedNone
    /\ trace = <<>>
    /\ inspectLog = <<>>
    /\ fitLog = <<>>

\* deconvolve is about to be called with any of the inputs
InitDeconvolve ==
    /\ NoCall
    /\ pc = "call"
    /\ inp \in Inputs
    /\ Locals

\* deconvolve with every optional argument at its default (lines 26-33)
DefaultCall ==
    [y_train |-> <<0>>, K |-> 1, n_data |-> 1, classes_ |-> <<0>>,
     ylevels |-> None, f_0 |-> None, fixweighting |-> TRUE,
     alpha |-> Constant(One), epsilon |-> Zero, inspect |-> FALSE,
     return_contributions |-> FALSE]

\* no call of deconvolve: a utility or a helper is about to be called directly
InitUtil ==
    /\ NoCall
    /\ pc = "idle"
    /\ inp = DefaultCall
    /\ Locals

Init == InitUtil \/ InitDeconvolve

Next ==
    \/ Call_normalizepdf
    \/ Call_fit_R
    \/ Call_smooth_polynomial
    \/ Call_dsea_weights
    \/ Call_train_and_predict_proba
    \/ Deconvolve_Start
    \/ Deconvolve_TrainPredict
    \/ Deconvolve_Step
    \/ Deconvolve_Monitor
    \/ Deconvolve_Return

Spec == Init /\ [][Next]_vars

(***************************************************************************)
(* Properties of the direct calls.                                         *)
(***************************************************************************)
\* the confidences raw, whose columns follow classes_, with column j holding
\* the confidences of class yl[j]
ColumnsInOrderOf(raw, classes_, yl) ==
    [r \in 1..Len(raw) |->
        [j \in 1..Len(yl) |->
            raw[r][CHOOSE c \in 1..Len(classes_) : classes_[c] = yl[j]]]]

\* C1: for every ordering classes_ of ylevels, column j of the matrix that
\* _train_and_predict_proba returns holds the classifier's confidences for
\* class ylevels[j], so the estimate reconstructed from it does not depend on
\* the ordering of classes_.
C1_ColumnsFollowYlevels ==
    fn = "_train_and_predict_proba" =>
        LET want == ColumnsInOrderOf(args.raw, args.classes_, args.ylevels)
        IN  /\ res.value = want
            /\ _dsea_reconstruct(res.value) = _dsea_reconstruct(want)

\* arr with its non-finite entries replaced by 0
Cleaned(arr) == [i \in 1..Len(arr) |-> IF IsFinite(arr[i]) THEN arr[i] ELSE Zero]

IsUniform(v) == \A i \in 1..Len(v) : v[i] = Div(One, R(Len(v)))

\* C7 as claimed: normalizepdf returns, for every array, the uniform
\* distribution if the sum of the cleaned array is 0, and otherwise entries
\* that are all >= 0 and sum to 1.
C7_AlwaysPmf ==
    (fn = "normalizepdf" /\ res.kind = "value") =>
        /\ Len(res.value) = Len(args.arr)
        /\ IF Sum(Cleaned(args.arr)) # Zero
           THEN /\ \A i \in 1..Len(res.value) : Leq(Zero, res.value[i])
                /\ Sum(res.value) = One
           ELSE IsUniform(res.value)

\* C7 as amended: normalizepdf returns the uniform distribution if the sum of
\* the cleaned array is 0; otherwise the entries sum to 1, and an entry is
\* negative exactly when its cleaned input entry has the sign opposite to that
\* sum, so all entries are >= 0 for an input without a negative finite entry.
C7_NormalizedSumsToOne ==
    (fn = "normalizepdf" /\ res.kind = "value") =>
        LET c == Cleaned(args.arr)
            total == Sum(c)
        IN  /\ Len(res.value) = Len(args.arr)
            /\ IF total # Zero
               THEN /\ Sum(res.value) = One
                    /\ \A i \in 1..Len(c) :
                          Less(res.value[i], Zero) <=> Sgn(c[i][1]) * Sgn(total[1]) = -1
                    /\ (\A i \in 1..Len(c) : Leq(Zero, c[i]))
                          => \A i \in 1..Len(c) : Leq(Zero, res.value[i])
               ELSE IsUniform(res.value)

\* a call of normalizepdf on an array that holds a non-finite entry and a
\* positive one, and no negative one
C7_Witness ==
    /\ fn = "normalizepdf"
    /\ res.kind = "value"
    /\ Len(args.arr) >= 2
    /\ \E i \in 1..Len(args.arr) : ~IsFinite(args.arr[i])
    /\ \A i \in 1..Len(args.arr) : ~Less(args.arr[i], Zero) \/ ~IsFinite(args.arr[i])
    /\ Sum(Cleaned(args.arr)) # Zero
    /\ Sum(res.value) = One

\* C8: smooth_polynomial signals an error and returns nothing whenever
\* order >= len(arr), and returns an array as long as arr otherwise.
C8_InvalidOrderIsSignaled ==
    fn = "smooth_polynomial" =>
        IF args.order >= Len(args.arr)
        THEN res.kind = "raise"
        ELSE res.kind = "value" /\ Len(res.value) = Len(args.arr)

\* the number of instances with cluster index j and target index i
CountXY(x, y, j, i) == Cardinality({n \in 1..Len(x) : x[n] = j /\ y[n] = i})

\* the number of instances with target index i
CountY(y, i) == Cardinality({n \in 1..Len(y) : y[n] = i})

\* what C9 says of a call of fit_R: a J x I matrix whose column i is the
\* (normalized) histogram of the cluster indices of the instances with target
\* index i, each instance being counted in exactly one column
FitRAsDescribed ==
    LET x == args.x
        y == args.y
        J == Cardinality(Range(x))
        I == Cardinality(Range(y))
    IN  /\ res.kind = "value"
        /\ Len(res.value) = J
        /\ \A j \in 1..J : Len(res.value[j]) = I
        /\ \A n \in 1..Len(y) : y[n] \in 0..(I - 1)
        /\ \A i \in 1..I :
              IF ~args.normalize
              THEN \A j \in 1..J : res.value[j][i] = R(CountXY(x, y, j - 1, i - 1))
              ELSE CountY(y, i - 1) > 0 =>
                      /\ \A j \in 1..J :
                            res.value[j][i] = Div(R(CountXY(x, y, j - 1, i - 1)),
                                                  R(CountY(y, i - 1)))
                      /\ Sum([j \in 1..J |-> res.value[j][i]]) = One

\* C9 as claimed: fit_R returns such a matrix for any arrays x and y of
\* non-negative integers.
C9_AnyIndices == fn = "fit_R" => FitRAsDescribed

\* the values of s are exactly 0 .. (number of distinct values) - 1
Contiguous(s) == Range(s) = 0..(Cardinality(Range(s)) - 1)

\* C9 as amended: fit_R returns such a matrix for arrays whose cluster indices
\* are exactly 0..J-1 and whose target indices are exactly 0..I-1.
C9_ContiguousIndices ==
    (fn = "fit_R" /\ Contiguous(args.x) /\ Contiguous(args.y)) => FitRAsDescribed

\* a normalizing call of fit_R on two clusters and two target levels
C9_Witness ==
    /\ fn = "fit_R"
    /\ Contiguous(args.x)
    /\ Contiguous(args.y)
    /\ args.normalize
    /\ Cardinality(Range(args.x)) >= 2
    /\ Cardinality(Range(args.y)) >= 2
    /\ res.kind = "value"

(***************************************************************************)
(* Properties of deconvolve.                                               *)
(***************************************************************************)
\* every entry of w is at least 1/n
AtLeastFloor(w, n) == \A i \in 1..Len(w) : Leq(Div(One, R(n)), w[i])

\* every label of y is a level of yl
Covers(yl, y) == Range(y) \subseteq Range(yl)

\* C3 as claimed: for every y_train, ylevels and w_bin every weight that
\* _dsea_weights returns is >= 1/n_train, with a fresh array and in place, and
\* so is every weight that deconvolve hands to classifier.fit.
C3_FloorForAnyLevels ==
    /\ fn = "_dsea_weights" => AtLeastFloor(res.value, Len(args.y_train))
    /\ \A j \in 1..Len(fitLog) : AtLeastFloor(fitLog[j], Len(inp.y_train))

\* C3 as amended: the same, for every ylevels that contains every label that
\* occurs in y_train.
C3_FloorForCoveringLevels ==
    /\ (fn = "_dsea_weights" /\ Covers(args.ylevels, args.y_train)) =>
          /\ Len(res.value) = Len(args.y_train)
          /\ AtLeastFloor(res.value, Len(args.y_train))
    /\ Covers(ylevels, inp.y_train) =>
          \A j \in 1..Len(fitLog) :
             /\ Len(fitLog[j]) = Len(inp.y_train)
             /\ AtLeastFloor(fitLog[j], Len(inp.y_train))

\* weights rewritten in place, over an array that held a zero, from bin
\* weights with a non-finite and a non-positive entry: some weight is
\* raised to the floor
C3_Witness ==
    /\ fn = "_dsea_weights"
    /\ Covers(args.ylevels, args.y_train)
    /\ args.out.given
    /\ \E i \in 1..Len(args.y_train) : args.out.value[i] = Zero
    /\ \E j \in 1..Len(args.w_bin) : ~IsFinite(args.w_bin[j])
    /\ \E j \in 1..Len(args.w_bin) : Leq(args.w_bin[j], Zero)
    /\ \E i \in 1..Len(res.value) : res.value[i] = Div(One, R(Len(args.y_train)))
    /\ Len(args.y_train) >= 2

\* the k of every call of `what`, in the order of the calls
CallsOf(what) ==
    LET RECURSIVE Ks(_)
        Ks(n) == IF n = 0 THEN <<>>
                 ELSE IF trace[n][1] = what THEN Append(Ks(n - 1), trace[n][2])
                 ELSE Ks(n - 1)
    IN  Ks(Len(trace))

\* the loop of lines 112-133 is over
LoopEnded ==
    \/ pc \in {"return", "done"}
    \/ pc = "loop" /\ k >= inp.K
    \/ pc = "raised" /\ out.error = "UnboundLocalError"

\* deconvolve has been entered
Running == pc \notin {"idle", "call"}

\* C2: the iterations run for k = 1, 2, ...; the loop ends after the first
\* iteration whose distance is strictly below epsilon or after iteration K,
\* and no fit and no inspect follows; with K >= 1 and epsilon above the first
\* distance exactly one iteration runs and inspect is called with 0 and 1.
C2_StoppingRule ==
    Running =>
        /\ k <= inp.K
        /\ CallsOf("fit") = [j \in 1..k |-> j]
        /\ Len(fitLog) = k
        /\ pc = "return" => Less(chi2, inp.epsilon)
        /\ (pc = "loop" /\ k >= 1) => ~Less(chi2, inp.epsilon)
        /\ \A p \in 1..Len(trace), q \in 1..Len(trace) :
              (p < q /\ (trace[p][1] = "break" \/ trace[p] = <<"test", inp.K>>))
                 => trace[q][1] \notin {"fit", "predict_proba", "inspect"}
        /\ LoopEnded =>
              /\ k = inp.K \/ Less(chi2, inp.epsilon)
              /\ CallsOf("inspect") = IF inp.inspect THEN [j \in 1..(k + 1) |-> j - 1]
                                      ELSE <<>>
              /\ inp.inspect =>
                    /\ Len(inspectLog) = k + 1
                    /\ \A j \in 1..(k - 1) : ~Less(inspectLog[j + 1].chi2s, inp.epsilon)
                    /\ (k >= 1 /\ Less(inspectLog[2].chi2s, inp.epsilon)) => k = 1

\* a run with K = 2 that stopped after its first iteration, whose distance was
\* positive and below epsilon, with inspect called for k = 0 and k = 1
C2_Witness ==
    /\ pc = "done"
    /\ inp.K = 2
    /\ k = 1
    /\ inp.inspect
    /\ Less(Zero, chi2)
    /\ Less(chi2, inp.epsilon)
    /\ CallsOf("inspect") = <<0, 1>>
    /\ Len(fitLog) = 1

\* C4: a callable alpha is invoked once in every iteration k, with (k, pk,
\* f_prev), and its result is the step size of the update; deconvolve does
\* not fail there.
C4_CallableAlphaIsInvoked ==
    (Running /\ inp.alpha.callable /\ k >= 1 /\ pc # "step") =>
        /\ pc # "raised"
        /\ CallsOf("alpha") = [j \in 1..k |-> j]
        /\ f = VAdd(f_prev, VScale(alphak, VSub(_dsea_reconstruct(proba.value), f_prev)))

\* the prior after defaulting (line 100)
Prior ==
    IF inp.f_0.given THEN inp.f_0.value
    ELSE [j \in 1..Len(ylevels) |-> Div(One, R(Len(ylevels)))]

\* C5: with K = 0 deconvolve fits nothing, calls inspect (if given) once, with
\* 0, and returns f_0 unchanged, whatever return_contributions is.
C5_ZeroIterations ==
    (inp.K = 0 /\ pc \in {"done", "raised"}) =>
        /\ pc = "done"
        /\ out.kind = "value"
        /\ out.value.f = Prior
        /\ fitLog = <<>>
        /\ trace = IF inp.inspect THEN <<<<"inspect", 0>>>> ELSE <<>>

\* C6: with K = 1, alpha = 1, fixweighting = false and a classifier that gives
\* every data instance the proportions p, in the order of ylevels, deconvolve
\* returns the column sums n_data * p, which normalize to p.
C6_PerfectClassifier ==
    (/\ pc = "done"
     /\ inp.K = 1
     /\ inp.alpha = Constant(One)
     /\ ~inp.fixweighting
     /\ inp.classes_ = ylevels
     /\ \A r \in 1..Len(predicted) : predicted[r] = predicted[1]
     /\ Sum(predicted[1]) = One) =>
        /\ out.value.f = VScale(R(inp.n_data), predicted[1])
        /\ normalizepdf(out.value.f) = predicted[1]

\* such a run on two data instances and two levels, from a prior that differs
\* from the proportions
C6_Witness ==
    /\ pc = "done"
    /\ inp.K = 1
    /\ inp.alpha = Constant(One)
    /\ ~inp.fixweighting
    /\ inp.classes_ = ylevels
    /\ inp.n_data = 2
    /\ Len(ylevels) = 2
    /\ inp.f_0.given
    /\ predicted = <<<<Half, Half>>, <<Half, Half>>>>
    /\ inp.f_0.value = <<One, Zero>>
    /\ out.value.f = <<One, One>>

\* the instance weights derived from the estimate est: the normalized bin
\* weight of the instance's level, raised to 1/n_train
WeightsFrom(est) ==
    LET n == Len(inp.y_train)
        w == normalizepdf(IF inp.fixweighting THEN VDiv(est, f_train) ELSE est)
    IN  [i \in 1..n |->
            IF \E j \in 1..Len(ylevels) : ylevels[j] = inp.y_train[i]
            THEN LET j == CHOOSE h \in 1..Len(ylevels) : ylevels[h] = inp.y_train[i]
                 IN  IF Less(w[j], Div(One, R(n))) THEN Div(One, R(n)) ELSE w[j]
            ELSE Zero]

\* C10: in every iteration the classifier is fitted once, before
\* predict_proba; inspect(k) follows the update of the estimate and precedes
\* the convergence test; the fit of iteration 1 uses weights derived from f_0
\* and the fit of iteration k+1 weights derived from the estimate of iteration
\* k; weights are recomputed only when the loop goes on and k < K.
C10_OrderOfSteps ==
    Running =>
        /\ \A p \in 1..Len(trace) :
              LET what == trace[p][1]
                  j == trace[p][2]
                  before == IF p > 1 THEN trace[p - 1] ELSE <<"call", 0>>
              IN  /\ what = "fit" =>
                        /\ Cardinality({q \in 1..Len(trace) : trace[q] = trace[p]}) = 1
                        /\ before = IF j = 1
                                    THEN (IF inp.inspect THEN <<"inspect", 0>>
                                          ELSE <<"call", 0>>)
                                    ELSE <<"weights", j - 1>>
                  /\ what = "predict_proba" => before = <<"fit", j>>
                  /\ what = "step" => before = <<"predict_proba", j>>
                  /\ (what = "inspect" /\ j >= 1) => before = <<"step", j>>
                  /\ what \in {"test", "break"} =>
                        before = IF inp.inspect THEN <<"inspect", j>> ELSE <<"step", j>>
                  /\ what = "weights" => j < inp.K /\ before = <<"test", j>>
        /\ Len(fitLog) = k
        /\ k >= 1 =>
              /\ fitLog[k] = WeightsFrom(IF pc = "step" THEN f ELSE f_prev)
              /\ k = 1 => fitLog[1] = WeightsFrom(Prior)
        /\ inp.inspect =>
              \A j \in 1..Len(fitLog) : fitLog[j] = WeightsFrom(inspectLog[j].f)
        /\ (LoopEnded /\ k >= 1) => w_train = fitLog[k]

\* a run of two iterations with inspect and the weight fix, whose second fit
\* got other weights than its first
C10_Witness ==
    /\ pc = "done"
    /\ k = 2
    /\ inp.inspect
    /\ inp.fixweighting
    /\ fitLog[1] # fitLog[2]
    /\ CallsOf("weights") = <<1>>
    /\ CallsOf("inspect") = <<0, 1, 2>>

=============================================================================
